---- MODULE Spec2Model ----
(***************************************************************************)
(* Model of the incremental transaction indexer of                         *)
(* shitcoincleaner-backend (src/indexer.js; src/server.js embeds a copy).  *)
(*                                                                         *)
(* A signature is the position of its transaction in the ledger, so the    *)
(* numeric order of signatures is the ledger emission order.  0 is null.   *)
(* Every `await` of processNewTransactions is a separate step, so that     *)
(* invocations started by setInterval interleave as they do in Node.       *)
(***************************************************************************)
EXTENDS Integers, Sequences, FiniteSets, TLC

\* ---------------------------------------------------------------- constants
\* src/indexer.js:18 sets 100 and src/indexer.js:17 sets 20; both are scaled
\* down here, keeping BATCH_FETCH_SIZE < SIGNATURE_FETCH_LIMIT < MaxLedger, so
\* that a window can need several chunks and the ledger can outgrow a window.
SIGNATURE_FETCH_LIMIT == 2
BATCH_FETCH_SIZE == 1

\* ---------------------------------------------------------------- bounds
MaxLedger == 3
MaxRestarts == 1
MaxConcurrent == 2

NULL == 0
Wallets == {"W1", "W2"}
SOLANA_PROGRAM_ID == "target"
Slots == 1..MaxConcurrent

Min(a, b) == IF a < b THEN a ELSE b
Max(a, b) == IF a > b THEN a ELSE b

\* ---------------------------------------------------------------- ledger
\* Parsed transaction bodies as connection.getParsedTransactions returns them.
Body(kind) ==
    CASE kind = "okW1" ->
           [err |-> "null",
            accountKeys |-> << [pubkey |-> "W1", signer |-> TRUE] >>,
            instructions |-> << SOLANA_PROGRAM_ID >>]
      [] kind = "okW2" ->
           [err |-> "null",
            accountKeys |-> << [pubkey |-> "W1", signer |-> FALSE],
                               [pubkey |-> "W2", signer |-> TRUE],
                               [pubkey |-> "W1", signer |-> TRUE] >>,
            instructions |-> << "other", SOLANA_PROGRAM_ID >>]
      [] kind = "failed" ->
           [err |-> "InstructionError",
            accountKeys |-> << [pubkey |-> "W1", signer |-> TRUE] >>,
            instructions |-> << SOLANA_PROGRAM_ID >>]
      [] kind = "notInvoked" ->
           [err |-> "null",
            accountKeys |-> << [pubkey |-> "W1", signer |-> TRUE] >>,
            instructions |-> << "other" >>]
      [] kind = "noSigner" ->
           [err |-> "null",
            accountKeys |-> << [pubkey |-> "W1", signer |-> FALSE] >>,
            instructions |-> << SOLANA_PROGRAM_ID >>]

TxKinds == {"okW1", "okW2", "failed", "notInvoked", "noSigner"}
\* The kinds the ledger emits in the cycle-level specifications.
EmittedKinds == {"okW1", "okW2", "failed"}

\* ---------------------------------------------------------------- helpers
\* Array.prototype.findIndex: 0-based index of the first match, -1 if none.
FindIndex(s, x) ==
    IF \E j \in 1..Len(s) : s[j] = x
    THEN (CHOOSE j \in 1..Len(s) : s[j] = x /\ \A m \in 1..(j - 1) : s[m] # x) - 1
    ELSE -1

\* Array.prototype.slice(a, b) for 0 <= a: 0-based, end exclusive, clamped.
Slice(s, a, b) == SubSeq(s, a + 1, Min(b, Len(s)))

\* ---------------------------------------------------------------- RPC
\* connection.getSignaturesForAddress(program, {limit, until}): the newest
\* `limit` signatures, newest first, that are strictly newer than `until`
\* (all of them when `until` is null).
GetSignaturesForAddress(ldg, limit, until) ==
    LET n == Len(ldg)
        lo == IF until = NULL THEN 1 ELSE until + 1
        k == Max(0, Min(limit, n - lo + 1))
    IN [j \in 1..k |-> n - j + 1]

\* getSignaturesForAddress when `until` is not effective (the case the
\* comment at the filter provides for): the newest `limit` signatures, the
\* checkpoint and older ones among them.
GetSignaturesUntilIneffective(ldg, limit, until) ==
    GetSignaturesForAddress(ldg, limit, NULL)

\* connection.getParsedTransactions(batch): one entry per requested signature,
\* in request order; the entries whose positions are in `nulls` come back null.
GetParsedTransactions(ldg, batch, nulls) ==
    [j \in 1..Len(batch) |-> IF j \in nulls THEN "null" ELSE ldg[batch[j]]]

\* ---------------------------------------------------------------- novelty filter
\* Mutant of NoveltyFilter: the slice ends one element late and keeps the
\* checkpoint's own signature.
NoveltyFilterInclusive(signaturesInfo, last) ==
    IF last # NULL
    THEN LET lastKnownIndex == FindIndex(signaturesInfo, last)
         IN IF lastKnownIndex > -1
            THEN Slice(signaturesInfo, 0, lastKnownIndex + 1)
            ELSE signaturesInfo
    ELSE signaturesInfo

\* Mutant of NoveltyFilter: no downstream filtering, the window is the novel set.
NoveltyFilterNone(signaturesInfo, last) == signaturesInfo

NoveltyFilter(signaturesInfo, last) ==
    IF last # NULL
    THEN LET lastKnownIndex == FindIndex(signaturesInfo, last)
         IN IF lastKnownIndex > -1
            THEN Slice(signaturesInfo, 0, lastKnownIndex)
            ELSE signaturesInfo
    ELSE signaturesInfo

\* ---------------------------------------------------------------- extractor
\* Mutant of FirstSignerAccount: the last account marked as a signer.
LastSignerAccount(accountKeys) ==
    IF \E j \in 1..Len(accountKeys) : accountKeys[j].signer
    THEN accountKeys[CHOOSE j \in 1..Len(accountKeys) :
                        /\ accountKeys[j].signer
                        /\ \A m \in (j + 1)..Len(accountKeys) : ~accountKeys[m].signer].pubkey
    ELSE "none"

\* accountKeys.find(acc => acc.signer), "none" for undefined.
FirstSignerAccount(accountKeys) ==
    IF \E j \in 1..Len(accountKeys) : accountKeys[j].signer
    THEN accountKeys[CHOOSE j \in 1..Len(accountKeys) :
                        /\ accountKeys[j].signer
                        /\ \A m \in 1..(j - 1) : ~accountKeys[m].signer].pubkey
    ELSE "none"

ProgramInteracted(instructions) ==
    \E j \in 1..Len(instructions) : instructions[j] = SOLANA_PROGRAM_ID

\* Mutant of CountedWalletOf: the execution error is not looked at.
CountedWalletOfAnyErr(body) ==
    LET firstSignerAccount == FirstSignerAccount(body.accountKeys)
    IN IF firstSignerAccount # "none" /\ ProgramInteracted(body.instructions)
       THEN firstSignerAccount
       ELSE "none"

\* The wallet a parsed body is counted for, "none" when it is not counted.
CountedWalletOf(body) ==
    IF body.err = "null"
    THEN LET firstSignerAccount == FirstSignerAccount(body.accountKeys)
         IN IF firstSignerAccount # "none" /\ ProgramInteracted(body.instructions)
            THEN firstSignerAccount
            ELSE "none"
    ELSE "none"

\* The wallet one entry of a getParsedTransactions response is counted for,
\* "none" when the entry is not counted.  tx is a kind of body, or "null".
CountedWallet(tx) ==
    IF tx # "null" THEN CountedWalletOf(Body(tx)) ELSE "none"

\* ---------------------------------------------------------------- aggregator
\* walletInteractionCounts is a Map: `count` holds its values (0: no key) and
\* `keys` its keys in insertion order, the order the upsert loop iterates in.
EmptyMap == [count |-> [w \in Wallets |-> 0], keys |-> << >>]

MapIncrement(map, w) ==
    [count |-> [map.count EXCEPT ![w] = @ + 1],
     keys |-> IF map.count[w] = 0 THEN Append(map.keys, w) ELSE map.keys]

RECURSIVE CountBatch(_, _)
CountBatch(map, transactions) ==
    IF transactions = << >>
    THEN map
    ELSE LET walletAddress == CountedWallet(Head(transactions))
         IN CountBatch(IF walletAddress = "none" THEN map
                       ELSE MapIncrement(map, walletAddress),
                       Tail(transactions))

\* ---------------------------------------------------------------- storage
\* Mutant of Upsert: DO UPDATE SET interaction_count = EXCLUDED.interaction_count
\* (the row takes the increment instead of adding it).
UpsertOverwrite(table, w, n) ==
    IF w \in DOMAIN table
    THEN [table EXCEPT ![w] = n]
    ELSE table @@ (w :> n)

\* INSERT ... VALUES (w, n) ON CONFLICT (wallet_address) DO UPDATE
\* SET interaction_count = wallet_scores.interaction_count + n
Upsert(table, w, n) ==
    IF w \in DOMAIN table
    THEN [table EXCEPT ![w] = @ + n]
    ELSE table @@ (w :> n)

\* The statements of a committed storage transaction applied in order.
RECURSIVE ApplyWrites(_, _)
ApplyWrites(table, writes) ==
    IF writes = << >>
    THEN table
    ELSE ApplyWrites(Upsert(table, Head(writes)[1], Head(writes)[2]), Tail(writes))

\* SELECT interaction_count FROM wallet_scores WHERE wallet_address = w,
\* 0 when there is no row.
InteractionCount(table, w) == IF w \in DOMAIN table THEN table[w] ELSE 0

\* ---------------------------------------------------------------- API helpers
\* The strings `new PublicKey(address)` accepts (base58 text of a 32-byte
\* key): the wallets of the model and one more key, which never gets a row.
Base58Keys == Wallets \cup {"W3"}

\* The values of req.params.walletAddress that are sent.
RequestAddresses == Base58Keys \cup {"not-a-key"}

\* Mutant of IsValidSolanaAddress: no validation.
IsValidSolanaAddressAny(address) == TRUE

IsValidSolanaAddress(address) == address \in Base58Keys

\* The values of req.query that are sent: no n, or n a string of at most
\* MaxParamLen characters of ParamChars.
MaxParamLen == 2
ParamChars == {"-", "0", "1", "a"}

Queries ==
    {[present |-> FALSE, n |-> << >>]}
    \cup {[present |-> TRUE, n |-> n] :
             n \in UNION {[1..len -> ParamChars] : len \in 0..MaxParamLen}}

IsDigit(ch) == ch \in {"0", "1"}

DigitValue(ch) == IF ch = "1" THEN 1 ELSE 0

RECURSIVE DigitsValue(_)
DigitsValue(digits) ==
    IF digits = << >>
    THEN 0
    ELSE 10 * DigitsValue(SubSeq(digits, 1, Len(digits) - 1))
         + DigitValue(digits[Len(digits)])

NaN == [nan |-> TRUE, value |-> 0]

\* parseInt(string): an optional sign, then the longest prefix of decimal
\* digits; NaN when that prefix is empty.
ParseInt(string) ==
    LET negative == Len(string) > 0 /\ string[1] = "-"
        rest == IF negative THEN Tail(string) ELSE string
        k == Cardinality({j \in 1..Len(rest) : \A m \in 1..j : IsDigit(rest[m])})
    IN IF k = 0
       THEN NaN
       ELSE [nan |-> FALSE,
             value |-> (IF negative THEN -1 ELSE 1) * DigitsValue(SubSeq(rest, 1, k))]

\* parseInt(req.query.n) || 10: NaN and 0 are falsy.
TopN(query) ==
    LET parsed == IF query.present THEN ParseInt(query.n) ELSE NaN
    IN IF parsed.nan \/ parsed.value = 0 THEN 10 ELSE parsed.value

\* Mutant of Before: ties on interaction_count are broken by updated_at DESC.
BeforeNewestFirst(table, updated_at, a, b) ==
    \/ table[a] > table[b]
    \/ table[a] = table[b] /\ updated_at[a] >= updated_at[b]

\* ORDER BY interaction_count DESC, updated_at ASC allows row a before row b.
Before(table, updated_at, a, b) ==
    \/ table[a] > table[b]
    \/ table[a] = table[b] /\ updated_at[a] <= updated_at[b]

\* The results the scoreboard SELECT may return: the wallet_address column of
\* the first `limit` rows in an order that ORDER BY allows.
QueryScoreboard(table, updated_at, limit) ==
    LET size == Cardinality(DOMAIN table)
        Orders == {rows \in [1..size -> DOMAIN table] :
                     /\ \A j, k \in 1..size : j # k => rows[j] # rows[k]
                     /\ \A j, k \in 1..size :
                          j < k => Before(table, updated_at, rows[j], rows[k])}
    IN {SubSeq(rows, 1, Min(limit, size)) : rows \in Orders}

\* ---------------------------------------------------------------- state
VARIABLES
    ledger,                  \* kinds of the emitted transactions, oldest first
    lastProcessedSignature,  \* the in-memory checkpoint
    wallet_scores,           \* the committed rows: wallet -> interaction_count
    cycle,                   \* per invocation of processNewTransactions: its locals
    scheduler,               \* runIndexer: "initial" (awaiting the first cycle), "armed"
    restarts,                \* process restarts so far
    api,                     \* server.js: the HTTP request being handled
    server                   \* server.js: its own checkpoint and indexer invocation

vars == << ledger, lastProcessedSignature, wallet_scores, cycle, scheduler, restarts, api, server >>

\* No request is being handled.  A request in flight has its route, its
\* parameter (req.params.walletAddress or req.query), `topN`, whether db.query
\* has been called, the updated_at column as the query saw it, and, once
\* answered, the status and the body of the response.
ApiIdle ==
    [pc |-> "idle", route |-> "none", walletAddress |-> "none",
     query |-> [present |-> FALSE, n |-> << >>], topN |-> 0, queried |-> FALSE,
     updated_at |-> << >>, status |-> 0, body |-> << >>]

\* The API server process before it is started.  Once it listens it has its
\* own in-memory checkpoint and runs its own copy of processNewTransactions:
\* `scheduler` is "off", "initial" or "armed", the other fields are the
\* checkpoint and the locals of the invocation.
ServerOff ==
    [scheduler |-> "off", lastProcessedSignature |-> NULL, pc |-> "idle",
     until |-> NULL, newSignaturesToProcess |-> << >>, i |-> 0, map |-> EmptyMap]

\* The locals of an invocation are kept while they are live: until while the
\* signature call is pending, signaturesInfo only inside the step that filters
\* it, todo and writes while the storage transaction is open.  `client` is
\* "none" before db.getClient() resolves, "acquired" from then on, and what
\* release() made of it once the invocation has returned.
\* An invocation that has returned: `outcome` is what it last logged and `i`
\* the loop index at which a chunk call rejected (0 otherwise).
Returned(outcome, i) ==
    [pc |-> "idle", until |-> NULL, signaturesInfo |-> << >>,
     newSignaturesToProcess |-> << >>, i |-> i, map |-> EmptyMap,
     todo |-> << >>, writes |-> << >>, outcome |-> outcome, client |-> "none"]

\* client.release(): the client goes back to the pool; a client that is
\* released again throws.
Release(client) == IF client = "acquired" THEN "released" ELSE "error"

\* Mutant of ReturnedFrom: release() is the statement after try/catch instead
\* of a finally clause, so a rejection thrown from the catch block skips it.
ReturnedFromNoFinally(c, outcome, i) ==
    [Returned(outcome, i) EXCEPT
       !.client = IF outcome \in {"committed", "rolledBack"}
                  THEN Release(cycle[c].client)
                  ELSE cycle[c].client]

\* The invocation leaves the function from where it is: past
\* `const client = await db.getClient()` it is inside try/finally, and the
\* finally clause releases the client on the way out.
ReturnedFrom(c, outcome, i) ==
    [Returned(outcome, i) EXCEPT
       !.client = IF cycle[c].client = "none" THEN "none"
                  ELSE Release(cycle[c].client)]

\* processNewTransactions entered: it runs to its first await, the
\* getSignaturesForAddress call, whose `until` is the checkpoint read now.
Entered(last) ==
    [pc |-> "getSignatures", until |-> last, signaturesInfo |-> << >>,
     newSignaturesToProcess |-> << >>, i |-> 0, map |-> EmptyMap,
     todo |-> << >>, writes |-> << >>, outcome |-> "running", client |-> "none"]

\* Module load: runIndexer() has called processNewTransactions() and awaits it.
Init ==
    /\ ledger = << >>
    /\ lastProcessedSignature = NULL
    /\ wallet_scores = << >>
    /\ cycle = [c \in Slots |-> IF c = 1 THEN Entered(NULL) ELSE Returned("none", 0)]
    /\ scheduler = "initial"
    /\ restarts = 0
    /\ api = ApiIdle
    /\ server = ServerOff

\* ---------------------------------------------------------------- environment
\* The ledger emits one more transaction that references the program.
Emit ==
    /\ Len(ledger) < MaxLedger
    /\ \E kind \in EmittedKinds : ledger' = Append(ledger, kind)
    /\ UNCHANGED << lastProcessedSignature, wallet_scores, cycle, scheduler, restarts, api, server >>

\* The process is killed and started again: the in-memory checkpoint starts
\* as null, the storage server drops the open transactions, the rows stay.
Restart ==
    /\ restarts < MaxRestarts
    /\ restarts' = restarts + 1
    /\ lastProcessedSignature' = NULL
    /\ cycle' = [c \in Slots |-> IF c = 1 THEN Entered(NULL) ELSE Returned("none", 0)]
    /\ scheduler' = "initial"
    /\ UNCHANGED << ledger, wallet_scores, api, server >>

\* ---------------------------------------------------------------- scheduler
\* runIndexer resumes after `await processNewTransactions()` and arms the timer.
ArmTimer ==
    /\ scheduler = "initial"
    /\ cycle[1].pc = "idle"
    /\ scheduler' = "armed"
    /\ UNCHANGED << ledger, lastProcessedSignature, wallet_scores, cycle, restarts, api, server >>

\* The interval timer fires and calls processNewTransactions, whether or not
\* earlier invocations have returned.
Tick(c) ==
    /\ scheduler = "armed"
    /\ cycle[c].pc = "idle"
    /\ \A d \in Slots : d < c => cycle[d].pc # "idle"
    /\ cycle' = [cycle EXCEPT ![c] = Entered(lastProcessedSignature)]
    /\ UNCHANGED << ledger, lastProcessedSignature, wallet_scores, scheduler, restarts, api, server >>

\* ---------------------------------------------------------------- the cycle
\* Mutant of Caught: the checkpoint update sits where it also runs after a
\* rejected call (as in a finally block).
CaughtAdvancing(c, failed) ==
    /\ cycle' = [cycle EXCEPT ![c] = ReturnedFrom(c, failed, cycle[c].i)]
    /\ lastProcessedSignature' =
           IF cycle[c].newSignaturesToProcess # << >>
           THEN cycle[c].newSignaturesToProcess[1]
           ELSE lastProcessedSignature
    /\ UNCHANGED << ledger, wallet_scores, scheduler, restarts, api, server >>

\* Mutant of Caught: the rejection leaves processNewTransactions; the caller's
\* handler (or Node's, for an invocation started by the timer) ends the process.
CaughtRethrown(c, failed) ==
    /\ cycle' = [cycle EXCEPT ![c] = ReturnedFrom(c, failed, cycle[c].i)]
    /\ scheduler' = "exited"
    /\ UNCHANGED << ledger, lastProcessedSignature, wallet_scores, restarts, api, server >>

\* An await rejected outside the storage try block: the outer catch logs the
\* error of the call `failed`.
Caught(c, failed) ==
    /\ cycle' = [cycle EXCEPT ![c] = ReturnedFrom(c, failed, cycle[c].i)]
    /\ UNCHANGED << ledger, lastProcessedSignature, wallet_scores, scheduler, restarts, api, server >>

\* Mutant of Advance: the checkpoint becomes the last element of the novel
\* set (the oldest) instead of the first.
AdvanceOldest(c, outcome) ==
    /\ lastProcessedSignature' =
           cycle[c].newSignaturesToProcess[Len(cycle[c].newSignaturesToProcess)]
    /\ cycle' = [cycle EXCEPT ![c] = ReturnedFrom(c, outcome, 0)]

\* The statement after the storage block: the checkpoint becomes the newest
\* signature of the novel set, and the invocation returns.
Advance(c, outcome) ==
    /\ lastProcessedSignature' = cycle[c].newSignaturesToProcess[1]
    /\ cycle' = [cycle EXCEPT ![c] = ReturnedFrom(c, outcome, 0)]

\* Mutant of GetSignaturesReturn: the fast-forward takes the last element of
\* the window (the oldest) instead of the first.
GetSignaturesReturnOldest(c) ==
    /\ cycle[c].pc = "getSignatures"
    /\ LET signaturesInfo ==
               GetSignaturesForAddress(ledger, SIGNATURE_FETCH_LIMIT, cycle[c].until)
           newSignaturesToProcess ==
               NoveltyFilter(signaturesInfo, lastProcessedSignature)
       IN IF Len(signaturesInfo) = 0
          THEN /\ cycle' = [cycle EXCEPT ![c] = Returned("noSignatures", 0)]
               /\ UNCHANGED lastProcessedSignature
          ELSE IF Len(newSignaturesToProcess) = 0
          THEN /\ lastProcessedSignature' = signaturesInfo[Len(signaturesInfo)]
               /\ cycle' = [cycle EXCEPT ![c] = Returned("nothingNew", 0)]
          ELSE /\ cycle' = [cycle EXCEPT ![c].pc = "getParsed",
                                         ![c].until = NULL,
                                         ![c].newSignaturesToProcess = newSignaturesToProcess]
               /\ UNCHANGED lastProcessedSignature
    /\ UNCHANGED << ledger, wallet_scores, scheduler, restarts, api, server >>

\* getSignaturesForAddress resolves; the filter; the first chunk is requested.
GetSignaturesReturn(c) ==
    /\ cycle[c].pc = "getSignatures"
    /\ LET signaturesInfo ==
               GetSignaturesForAddress(ledger, SIGNATURE_FETCH_LIMIT, cycle[c].until)
           newSignaturesToProcess ==
               NoveltyFilter(signaturesInfo, lastProcessedSignature)
       IN IF Len(signaturesInfo) = 0
          THEN /\ cycle' = [cycle EXCEPT ![c] = Returned("noSignatures", 0)]
               /\ UNCHANGED lastProcessedSignature
          ELSE IF Len(newSignaturesToProcess) = 0
          THEN /\ lastProcessedSignature' = signaturesInfo[1]
               /\ cycle' = [cycle EXCEPT ![c] = Returned("nothingNew", 0)]
          ELSE /\ cycle' = [cycle EXCEPT ![c].pc = "getParsed",
                                         ![c].until = NULL,
                                         ![c].newSignaturesToProcess = newSignaturesToProcess]
               /\ UNCHANGED lastProcessedSignature
    /\ UNCHANGED << ledger, wallet_scores, scheduler, restarts, api, server >>

GetSignaturesFail(c) ==
    /\ cycle[c].pc = "getSignatures"
    /\ Caught(c, "getSignaturesError")

\* Mutant of LoopHead: the storage block is entered whatever the size of the Map.
LoopHeadAlwaysMerge(c, i, map) ==
    IF i < Len(cycle[c].newSignaturesToProcess)
    THEN /\ cycle' = [cycle EXCEPT ![c].pc = "getParsed", ![c].i = i, ![c].map = map]
         /\ UNCHANGED lastProcessedSignature
    ELSE /\ cycle' = [cycle EXCEPT ![c].pc = "getClient", ![c].i = i, ![c].map = map]
         /\ UNCHANGED lastProcessedSignature

\* The head of the chunk loop with index i: the next chunk is requested, or
\* the loop is over and the storage block (or the bare checkpoint update) runs.
LoopHead(c, i, map) ==
    IF i < Len(cycle[c].newSignaturesToProcess)
    THEN /\ cycle' = [cycle EXCEPT ![c].pc = "getParsed", ![c].i = i, ![c].map = map]
         /\ UNCHANGED lastProcessedSignature
    ELSE IF map.keys # << >>
    THEN /\ cycle' = [cycle EXCEPT ![c].pc = "getClient", ![c].i = i, ![c].map = map]
         /\ UNCHANGED lastProcessedSignature
    ELSE /\ lastProcessedSignature' = cycle[c].newSignaturesToProcess[1]
         /\ cycle' = [cycle EXCEPT ![c] = Returned("finished", 0)]

\* Mutant of GetParsed: the Map is created inside the chunk loop, so every
\* chunk is counted into an empty Map.
GetParsedFreshMap(c, complete) ==
    /\ cycle[c].pc = "getParsed"
    /\ LET new == cycle[c].newSignaturesToProcess
           batchSignatures == Slice(new, cycle[c].i, cycle[c].i + BATCH_FETCH_SIZE)
       IN \E nulls \in (IF complete THEN {{}} ELSE SUBSET (1..Len(batchSignatures))) :
            LET transactions == GetParsedTransactions(ledger, batchSignatures, nulls)
                map == CountBatch(EmptyMap, transactions)
            IN IF Len(new) > BATCH_FETCH_SIZE
               THEN /\ cycle' = [cycle EXCEPT ![c].pc = "delay", ![c].map = map]
                    /\ UNCHANGED lastProcessedSignature
               ELSE LoopHead(c, cycle[c].i + BATCH_FETCH_SIZE, map)
    /\ UNCHANGED << ledger, wallet_scores, scheduler, restarts, api, server >>

\* getParsedTransactions resolves for the chunk at i; its entries are counted.
\* With `complete`, the response has a body for every requested signature.
GetParsed(c, complete) ==
    /\ cycle[c].pc = "getParsed"
    /\ LET new == cycle[c].newSignaturesToProcess
           batchSignatures == Slice(new, cycle[c].i, cycle[c].i + BATCH_FETCH_SIZE)
       IN \E nulls \in (IF complete THEN {{}} ELSE SUBSET (1..Len(batchSignatures))) :
            LET transactions == GetParsedTransactions(ledger, batchSignatures, nulls)
                map == CountBatch(cycle[c].map, transactions)
            IN IF Len(new) > BATCH_FETCH_SIZE
               THEN /\ cycle' = [cycle EXCEPT ![c].pc = "delay", ![c].map = map]
                    /\ UNCHANGED lastProcessedSignature
               ELSE LoopHead(c, cycle[c].i + BATCH_FETCH_SIZE, map)
    /\ UNCHANGED << ledger, wallet_scores, scheduler, restarts, api, server >>

GetParsedReturn(c) == GetParsed(c, FALSE)

GetParsedComplete(c) == GetParsed(c, TRUE)

GetParsedFail(c) ==
    /\ cycle[c].pc = "getParsed"
    /\ Caught(c, "getParsedError")

\* Mutant of DelayDone: the loop index advances by one more than the chunk size.
DelayDoneSkipping(c) ==
    /\ cycle[c].pc = "delay"
    /\ LoopHead(c, cycle[c].i + BATCH_FETCH_SIZE + 1, cycle[c].map)
    /\ UNCHANGED << ledger, wallet_scores, scheduler, restarts, api, server >>

\* The 500 ms pause after a chunk elapses.
DelayDone(c) ==
    /\ cycle[c].pc = "delay"
    /\ LoopHead(c, cycle[c].i + BATCH_FETCH_SIZE, cycle[c].map)
    /\ UNCHANGED << ledger, wallet_scores, scheduler, restarts, api, server >>

\* db.getClient() resolves; BEGIN is sent.
GetClientReturn(c) ==
    /\ cycle[c].pc = "getClient"
    /\ cycle' = [cycle EXCEPT ![c].pc = "begin", ![c].client = "acquired"]
    /\ UNCHANGED << ledger, lastProcessedSignature, wallet_scores, scheduler, restarts, api, server >>

GetClientFail(c) ==
    /\ cycle[c].pc = "getClient"
    /\ Caught(c, "getClientError")

\* BEGIN resolves; the upsert of the first key of the Map is sent.
BeginReturn(c) ==
    /\ cycle[c].pc = "begin"
    /\ cycle' = [cycle EXCEPT ![c].pc = "upsert", ![c].todo = cycle[c].map.keys]
    /\ UNCHANGED << ledger, lastProcessedSignature, wallet_scores, scheduler, restarts, api, server >>

\* Mutant of UpsertReturn: the upsert is sent outside the transaction (through
\* the pool instead of the client) and takes effect at once.
UpsertReturnAutocommit(c) ==
    /\ cycle[c].pc = "upsert"
    /\ LET walletAddress == Head(cycle[c].todo)
           count == cycle[c].map.count[walletAddress]
       IN /\ wallet_scores' = Upsert(wallet_scores, walletAddress, count)
          /\ cycle' = [cycle EXCEPT
                         ![c].todo = Tail(@),
                         ![c].pc = IF Tail(cycle[c].todo) = << >> THEN "commit" ELSE "upsert"]
    /\ UNCHANGED << ledger, lastProcessedSignature, scheduler, restarts, api, server >>

\* An upsert resolves inside the open transaction; the next one, or COMMIT, is sent.
UpsertReturn(c) ==
    /\ cycle[c].pc = "upsert"
    /\ LET walletAddress == Head(cycle[c].todo)
           count == cycle[c].map.count[walletAddress]
       IN cycle' = [cycle EXCEPT
                      ![c].writes = Append(@, << walletAddress, count >>),
                      ![c].todo = Tail(@),
                      ![c].pc = IF Tail(cycle[c].todo) = << >> THEN "commit" ELSE "upsert"]
    /\ UNCHANGED << ledger, lastProcessedSignature, wallet_scores, scheduler, restarts, api, server >>

\* BEGIN, an upsert or COMMIT rejects: the catch block sends ROLLBACK.
StorageFail(c) ==
    /\ cycle[c].pc \in {"begin", "upsert", "commit"}
    /\ cycle' = [cycle EXCEPT ![c].pc = "rollback"]
    /\ UNCHANGED << ledger, lastProcessedSignature, wallet_scores, scheduler, restarts, api, server >>

\* COMMIT resolves: the writes of the transaction become the rows; the client
\* is released and the checkpoint updated.
CommitReturn(c) ==
    /\ cycle[c].pc = "commit"
    /\ wallet_scores' = ApplyWrites(wallet_scores, cycle[c].writes)
    /\ Advance(c, "committed")
    /\ UNCHANGED << ledger, scheduler, restarts, api, server >>

\* ROLLBACK resolves and the writes of the transaction are gone: the error is
\* logged, the client released, and the statement after the storage block runs.
RollbackReturn(c) ==
    /\ cycle[c].pc = "rollback"
    /\ Advance(c, "rolledBack")
    /\ UNCHANGED << ledger, wallet_scores, scheduler, restarts, api, server >>

\* ROLLBACK rejects inside the catch block: finally releases the client and
\* the rejection reaches the outer catch.
RollbackFail(c) ==
    /\ cycle[c].pc = "rollback"
    /\ Caught(c, "rollbackError")

Step(c) ==
    \/ GetSignaturesReturn(c)
    \/ GetSignaturesFail(c)
    \/ GetParsedReturn(c)
    \/ GetParsedFail(c)
    \/ DelayDone(c)
    \/ GetClientReturn(c)
    \/ GetClientFail(c)
    \/ BeginReturn(c)
    \/ UpsertReturn(c)
    \/ StorageFail(c)
    \/ CommitReturn(c)
    \/ RollbackReturn(c)
    \/ RollbackFail(c)

Next ==
    \/ Emit
    \/ Restart
    \/ ArmTimer
    \/ \E c \in Slots : Tick(c)
    \/ \E c \in Slots : Step(c)

Spec == Init /\ [][Next]_vars

\* ---------------------------------------------------------------- narrower runs
\* The runs in which every invocation returns before the timer fires again.
TickSerial ==
    /\ \A c \in Slots : cycle[c].pc = "idle"
    /\ Tick(1)

NextSerial ==
    \/ Emit
    \/ Restart
    \/ ArmTimer
    \/ TickSerial
    \/ Step(1)

SpecSerial == Init /\ [][NextSerial]_vars

\* Scheduling of the serial runs: a pending call eventually resolves or
\* rejects, runIndexer resumes when its await resolves, and the interval timer
\* keeps firing.
Fairness ==
    /\ WF_vars(ArmTimer)
    /\ WF_vars(TickSerial)
    /\ WF_vars(Step(1))

SpecLive == SpecSerial /\ Fairness

\* The serial runs in which no call rejects, every body is returned and the
\* process is never restarted.
NextNoFault ==
    \/ Emit
    \/ ArmTimer
    \/ TickSerial
    \/ GetSignaturesReturn(1)
    \/ GetParsedComplete(1)
    \/ DelayDone(1)
    \/ GetClientReturn(1)
    \/ BeginReturn(1)
    \/ UpsertReturn(1)
    \/ CommitReturn(1)

SpecNoFault == Init /\ [][NextNoFault]_vars

\* ---------------------------------------------------------------- two processes
\* The rows a Map is written as: one upsert per key, in insertion order.
MapEntries(map) ==
    [j \in 1..Len(map.keys) |-> << map.keys[j], map.count[map.keys[j]] >>]

\* The server's invocation returns; `last` is its checkpoint from then on.
ServerReturned(last) ==
    [server EXCEPT !.lastProcessedSignature = last, !.pc = "idle", !.until = NULL,
                   !.newSignaturesToProcess = << >>, !.i = 0, !.map = EmptyMap]

\* `npm start`: the listen callback calls processNewTransactions and awaits it.
ServerListen ==
    /\ server.scheduler = "off"
    /\ server' = [server EXCEPT !.scheduler = "initial", !.pc = "getSignatures",
                                !.until = server.lastProcessedSignature]
    /\ UNCHANGED << ledger, lastProcessedSignature, wallet_scores, cycle, scheduler, restarts, api >>

\* The listen callback resumes after the initial run and arms its timer.
ServerArmTimer ==
    /\ server.scheduler = "initial"
    /\ server.pc = "idle"
    /\ server' = [server EXCEPT !.scheduler = "armed"]
    /\ UNCHANGED << ledger, lastProcessedSignature, wallet_scores, cycle, scheduler, restarts, api >>

\* The server's timer fires after its previous invocation has returned.
ServerTick ==
    /\ server.scheduler = "armed"
    /\ server.pc = "idle"
    /\ server' = [server EXCEPT !.pc = "getSignatures",
                                !.until = server.lastProcessedSignature]
    /\ UNCHANGED << ledger, lastProcessedSignature, wallet_scores, cycle, scheduler, restarts, api >>

\* The server's getSignaturesForAddress resolves; the filter against the
\* server's checkpoint; the first chunk is requested.
ServerGetSignaturesReturn ==
    /\ server.pc = "getSignatures"
    /\ LET signaturesInfo ==
               GetSignaturesForAddress(ledger, SIGNATURE_FETCH_LIMIT, server.until)
           newSignaturesToProcess ==
               NoveltyFilter(signaturesInfo, server.lastProcessedSignature)
       IN server' = IF Len(signaturesInfo) = 0
                    THEN ServerReturned(server.lastProcessedSignature)
                    ELSE IF Len(newSignaturesToProcess) = 0
                    THEN ServerReturned(signaturesInfo[1])
                    ELSE [server EXCEPT !.pc = "getParsed", !.until = NULL,
                                        !.newSignaturesToProcess = newSignaturesToProcess]
    /\ UNCHANGED << ledger, lastProcessedSignature, wallet_scores, cycle, scheduler, restarts, api >>

\* The server's getParsedTransactions resolves with every body, the entries
\* are counted and the pause, if any, has passed: the next chunk is requested,
\* or the storage block entered, or the checkpoint updated.
ServerGetParsedReturn ==
    /\ server.pc = "getParsed"
    /\ LET new == server.newSignaturesToProcess
           i == server.i + BATCH_FETCH_SIZE
           batchSignatures == Slice(new, server.i, i)
           map == CountBatch(server.map, GetParsedTransactions(ledger, batchSignatures, {}))
       IN server' = IF i < Len(new)
                    THEN [server EXCEPT !.i = i, !.map = map]
                    ELSE IF map.keys # << >>
                    THEN [server EXCEPT !.pc = "storage", !.i = i, !.map = map]
                    ELSE ServerReturned(new[1])
    /\ UNCHANGED << ledger, lastProcessedSignature, wallet_scores, cycle, scheduler, restarts, api >>

\* The server's storage transaction, from getClient to COMMIT, every call
\* resolving: its upserts become rows at COMMIT, then the server's checkpoint
\* is updated.
ServerCommitReturn ==
    /\ server.pc = "storage"
    /\ wallet_scores' = ApplyWrites(wallet_scores, MapEntries(server.map))
    /\ server' = ServerReturned(server.newSignaturesToProcess[1])
    /\ UNCHANGED << ledger, lastProcessedSignature, cycle, scheduler, restarts, api >>

\* The documented setup: `npm run start-indexer` and, in a separate terminal,
\* `npm start`, both against the same database; no call rejects.
NextTwoProcesses ==
    \/ NextNoFault
    \/ ServerListen
    \/ ServerArmTimer
    \/ ServerTick
    \/ ServerGetSignaturesReturn
    \/ ServerGetParsedReturn
    \/ ServerCommitReturn

SpecTwoProcesses == Init /\ [][NextTwoProcesses]_vars

\* ---------------------------------------------------------------- API
\* The timestamps of the updated_at column.
MaxTime == 2

\* GET /api/score/:walletAddress arrives: an invalid address is answered at
\* once, for a valid one the SELECT is sent.
ScoreRequest ==
    /\ api.pc = "idle"
    /\ \E walletAddress \in RequestAddresses :
         api' = IF walletAddress = "" \/ ~IsValidSolanaAddress(walletAddress)
                THEN [ApiIdle EXCEPT !.pc = "done", !.route = "score",
                                     !.walletAddress = walletAddress, !.status = 400]
                ELSE [ApiIdle EXCEPT !.pc = "query", !.route = "score",
                                     !.walletAddress = walletAddress, !.queried = TRUE]
    /\ UNCHANGED << ledger, lastProcessedSignature, wallet_scores, cycle, scheduler, restarts, server >>

\* The SELECT of the score route resolves and the response is sent.
ScoreQueryReturn ==
    /\ api.pc = "query"
    /\ api.route = "score"
    /\ LET interactionCount == InteractionCount(wallet_scores, api.walletAddress)
       IN api' = [api EXCEPT
                    !.pc = "done",
                    !.status = 200,
                    !.body = << [walletAddress |-> api.walletAddress,
                                 interactionCount |-> interactionCount] >>]
    /\ UNCHANGED << ledger, lastProcessedSignature, wallet_scores, cycle, scheduler, restarts, server >>

\* db.query rejects (either route): the catch block answers 500.
QueryFail ==
    /\ api.pc = "query"
    /\ api' = [api EXCEPT !.pc = "done", !.status = 500]
    /\ UNCHANGED << ledger, lastProcessedSignature, wallet_scores, cycle, scheduler, restarts, server >>

\* GET /api/scoreboard arrives: topN is computed and checked, then the
\* SELECT is sent.
ScoreboardRequest ==
    /\ api.pc = "idle"
    /\ \E query \in Queries :
         LET topN == TopN(query)
         IN api' = IF topN <= 0
                   THEN [ApiIdle EXCEPT !.pc = "done", !.route = "scoreboard",
                                        !.query = query, !.topN = topN, !.status = 400]
                   ELSE [ApiIdle EXCEPT !.pc = "query", !.route = "scoreboard",
                                        !.query = query, !.topN = topN, !.queried = TRUE]
    /\ UNCHANGED << ledger, lastProcessedSignature, wallet_scores, cycle, scheduler, restarts, server >>

\* The SELECT of the scoreboard route resolves; rows.map adds the ranks and
\* the response is sent.  The indexer model does not carry updated_at, so the
\* query sees the column with any timestamps.
ScoreboardQueryReturn ==
    /\ api.pc = "query"
    /\ api.route = "scoreboard"
    /\ \E updated_at \in [DOMAIN wallet_scores -> 1..MaxTime] :
         \E rows \in QueryScoreboard(wallet_scores, updated_at, api.topN) :
            api' = [api EXCEPT
                      !.pc = "done",
                      !.status = 200,
                      !.updated_at = updated_at,
                      !.body = [k \in 1..Len(rows) |->
                                  LET index == k - 1
                                  IN [rank |-> index + 1,
                                      walletAddress |-> rows[k],
                                      score |-> wallet_scores[rows[k]]]]]
    /\ UNCHANGED << ledger, lastProcessedSignature, wallet_scores, cycle, scheduler, restarts, server >>

\* The response has been written; the server waits for the next request.
ResponseSent ==
    /\ api.pc = "done"
    /\ api' = ApiIdle
    /\ UNCHANGED << ledger, lastProcessedSignature, wallet_scores, cycle, scheduler, restarts, server >>

\* server.js: the API next to the indexer, in the serial runs of the indexer
\* in which no call of a cycle rejects.
NextApi ==
    \/ NextNoFault
    \/ ScoreRequest
    \/ ScoreQueryReturn
    \/ ScoreboardRequest
    \/ ScoreboardQueryReturn
    \/ QueryFail
    \/ ResponseSent

SpecApi == Init /\ [][NextApi]_vars

\* The serial runs without restarts in which every body is returned and the
\* ledger emits only after the first cycle, only between cycles, and fewer
\* than SIGNATURE_FETCH_LIMIT transactions beyond the checkpoint.
EmitBetweenCycles ==
    /\ scheduler = "armed"
    /\ \A c \in Slots : cycle[c].pc = "idle"
    /\ Len(ledger) - lastProcessedSignature < SIGNATURE_FETCH_LIMIT - 1
    /\ Emit

NextPaced ==
    \/ EmitBetweenCycles
    \/ ArmTimer
    \/ TickSerial
    \/ GetSignaturesReturn(1)
    \/ GetSignaturesFail(1)
    \/ GetParsedComplete(1)
    \/ GetParsedFail(1)
    \/ GetClientReturn(1)
    \/ GetClientFail(1)
    \/ BeginReturn(1)
    \/ UpsertReturn(1)
    \/ StorageFail(1)
    \/ CommitReturn(1)
    \/ RollbackReturn(1)
    \/ RollbackFail(1)

SpecPaced == Init /\ [][NextPaced]_vars

\* The runs (overlapping invocations, restarts and rejected calls included)
\* in which every getParsedTransactions response has a body for every
\* requested signature.
StepComplete(c) ==
    \/ GetSignaturesReturn(c)
    \/ GetSignaturesFail(c)
    \/ GetParsedComplete(c)
    \/ GetParsedFail(c)
    \/ DelayDone(c)
    \/ GetClientReturn(c)
    \/ GetClientFail(c)
    \/ BeginReturn(c)
    \/ UpsertReturn(c)
    \/ StorageFail(c)
    \/ CommitReturn(c)
    \/ RollbackReturn(c)
    \/ RollbackFail(c)

NextComplete ==
    \/ Emit
    \/ Restart
    \/ ArmTimer
    \/ \E c \in Slots : Tick(c)
    \/ \E c \in Slots : StepComplete(c)

SpecComplete == Init /\ [][NextComplete]_vars

\* The novelty filter on its own: every newest-first window over the
\* signatures 1..MaxWindowSignature and every checkpoint, then the filter.
MaxWindowSignature == 5

RECURSIVE Descending(_)
\* The members of a set of signatures, newest first.
Descending(S) ==
    IF S = {}
    THEN << >>
    ELSE LET newest == CHOOSE x \in S : \A y \in S : y <= x
         IN << newest >> \o Descending(S \ {newest})

InitFilter ==
    /\ ledger = << >>
    /\ wallet_scores = << >>
    /\ scheduler = "initial"
    /\ restarts = 0
    /\ api = ApiIdle
    /\ server = ServerOff
    /\ lastProcessedSignature \in 0..MaxWindowSignature
    /\ \E S \in SUBSET (1..MaxWindowSignature) :
         cycle = [c \in Slots |->
                    IF c = 1
                    THEN [Entered(NULL) EXCEPT !.pc = "filter",
                                               !.signaturesInfo = Descending(S)]
                    ELSE Returned("none", 0)]

ApplyFilter ==
    /\ cycle[1].pc = "filter"
    /\ cycle' = [cycle EXCEPT
                   ![1].pc = "filtered",
                   ![1].newSignaturesToProcess =
                       NoveltyFilter(cycle[1].signaturesInfo, lastProcessedSignature)]
    /\ UNCHANGED << ledger, lastProcessedSignature, wallet_scores, scheduler, restarts, api, server >>

SpecFilter == InitFilter /\ [][ApplyFilter]_vars

\* The counting of one parsed body on its own: every body with at most
\* MaxAccounts accounts (distinct keys) and at most MaxInstructions
\* instructions is the only transaction of the ledger, then it is counted
\* into an empty Map.
MaxAccounts == 2
MaxInstructions == 2

AccountLists ==
    UNION {{keys \in [1..n -> [pubkey : Wallets, signer : BOOLEAN]] :
              \A j, m \in 1..n : j # m => keys[j].pubkey # keys[m].pubkey}
           : n \in 0..MaxAccounts}

InstructionLists ==
    UNION {[1..n -> {SOLANA_PROGRAM_ID, "other"}] : n \in 0..MaxInstructions}

Bodies ==
    [err : {"null", "InstructionError"},
     accountKeys : AccountLists,
     instructions : InstructionLists]

InitExtract ==
    /\ ledger \in {<< body >> : body \in Bodies}
    /\ lastProcessedSignature = NULL
    /\ wallet_scores = << >>
    /\ scheduler = "initial"
    /\ restarts = 0
    /\ api = ApiIdle
    /\ server = ServerOff
    /\ cycle = [c \in Slots |->
                 IF c = 1
                 THEN [Entered(NULL) EXCEPT !.pc = "extract",
                                            !.newSignaturesToProcess = << 1 >>]
                 ELSE Returned("none", 0)]

ApplyExtract ==
    /\ cycle[1].pc = "extract"
    /\ LET walletAddress == CountedWalletOf(ledger[1])
       IN cycle' = [cycle EXCEPT
                      ![1].pc = "extracted",
                      ![1].map = IF walletAddress = "none" THEN cycle[1].map
                                 ELSE MapIncrement(cycle[1].map, walletAddress)]
    /\ UNCHANGED << ledger, lastProcessedSignature, wallet_scores, scheduler, restarts, api, server >>

SpecExtract == InitExtract /\ [][ApplyExtract]_vars

\* The chunk loop on its own: an invocation is at its first chunk request with
\* a novel set of up to MaxWindowSignature signatures (the whole ledger,
\* newest first), and runs until the loop is over or a chunk call rejects.
InitChunk ==
    /\ \E n \in 1..MaxWindowSignature :
         /\ ledger \in [1..n -> {"okW1", "failed"}]
         /\ cycle = [c \in Slots |->
                       IF c = 1
                       THEN [Entered(NULL) EXCEPT
                               !.pc = "getParsed",
                               !.newSignaturesToProcess = Descending(1..n)]
                       ELSE Returned("none", 0)]
    /\ lastProcessedSignature = NULL
    /\ wallet_scores = << >>
    /\ scheduler = "initial"
    /\ restarts = 0
    /\ api = ApiIdle
    /\ server = ServerOff

NextChunk ==
    \/ GetParsedComplete(1)
    \/ GetParsedFail(1)
    \/ DelayDone(1)

SpecChunk == InitChunk /\ [][NextChunk]_vars

\* The fetch and the filter under the two upstream conventions: for every
\* ledger of up to MaxWindowSignature transactions and every present
\* checkpoint, invocation 1 fetches from an upstream that honours `until`,
\* the other invocations from one that does not.
InitBoundary ==
    /\ \E n \in 1..MaxWindowSignature :
         /\ ledger \in [1..n -> {"okW1", "failed"}]
         /\ lastProcessedSignature \in 1..n
    /\ cycle = [c \in Slots |-> Entered(lastProcessedSignature)]
    /\ wallet_scores = << >>
    /\ scheduler = "armed"
    /\ restarts = 0
    /\ api = ApiIdle
    /\ server = ServerOff

FetchBoundary(c) ==
    /\ cycle[c].pc = "getSignatures"
    /\ LET signaturesInfo ==
               IF c = 1
               THEN GetSignaturesForAddress(ledger, SIGNATURE_FETCH_LIMIT, cycle[c].until)
               ELSE GetSignaturesUntilIneffective(ledger, SIGNATURE_FETCH_LIMIT,
                                                  cycle[c].until)
       IN cycle' = [cycle EXCEPT
                      ![c].pc = "filtered",
                      ![c].signaturesInfo = signaturesInfo,
                      ![c].newSignaturesToProcess =
                          NoveltyFilter(signaturesInfo, lastProcessedSignature)]
    /\ UNCHANGED << ledger, lastProcessedSignature, wallet_scores, scheduler, restarts, api, server >>

NextBoundary == \E c \in Slots : FetchBoundary(c)

SpecBoundary == InitBoundary /\ [][NextBoundary]_vars

\* ---------------------------------------------------------------- properties
\* The signatures of the ledger whose transactions satisfy the counting
\* predicate and are attributed to wallet w.
Qualifying(w) == {sig \in 1..Len(ledger) : CountedWallet(ledger[sig]) = w}

\* Cycle c returns in this step (and the step is no restart).
Returns(c) ==
    /\ restarts' = restarts
    /\ cycle[c].pc # "idle"
    /\ cycle'[c].pc = "idle"

\* C1: a cycle whose wallet->increment map is non-empty changes the checkpoint
\* only in the step in which its storage transaction commits.
C1_CheckpointOnlyAfterCommit ==
    [][\A c \in Slots :
          (/\ Returns(c)
           /\ cycle[c].map.keys # << >>
           /\ lastProcessedSignature' # lastProcessedSignature)
          => (cycle[c].pc = "commit" /\ cycle'[c].outcome = "committed")]_vars

\* C2: across cycles and restarts, no wallet's persisted count exceeds the
\* number of qualifying ledger transactions attributed to it (each qualifying
\* transaction contributes at most 1).
C2_AtMostOncePerTransaction ==
    \A w \in Wallets :
        InteractionCount(wallet_scores, w) <= Cardinality(Qualifying(w))

\* C3: at most one invocation of processNewTransactions is running at any time.
C3_SingleActiveCycle ==
    Cardinality({c \in Slots : cycle[c].pc # "idle"}) <= 1

\* C4: a cycle whose storage transaction failed and was rolled back returns
\* with no counter changed and the checkpoint at its previous value.
C4_FailedStorageKeepsCheckpoint ==
    [][\A c \in Slots :
          (Returns(c) /\ cycle[c].pc = "rollback")
          => (/\ wallet_scores' = wallet_scores
              /\ lastProcessedSignature' = lastProcessedSignature)]_vars

\* C5: a cycle whose signature-list call or chunk call rejects has no effect.
\* While it fetches it holds no storage transaction; the step in which the
\* call rejects leaves the checkpoint and the counters as they are and drops
\* the increments accumulated from earlier chunks; and every change of the
\* checkpoint or of a counter is made by the returning step of a cycle that
\* did not end in an error (or by a restart), so the rejected cycle made none
\* before either, and the next cycle reads the checkpoint it left.
C5_RpcFailureHasNoEffect ==
    /\ [](\A c \in Slots :
             cycle[c].pc \in {"getSignatures", "getParsed", "delay"}
             => (cycle[c].todo = << >> /\ cycle[c].writes = << >>))
    /\ [][\A c \in Slots :
             (Returns(c) /\ cycle'[c].outcome \in {"getSignaturesError", "getParsedError"})
             => (/\ cycle[c].pc \in {"getSignatures", "getParsed"}
                 /\ lastProcessedSignature' = lastProcessedSignature
                 /\ wallet_scores' = wallet_scores
                 /\ cycle'[c].map = EmptyMap)]_vars
    /\ [][(lastProcessedSignature' # lastProcessedSignature \/ wallet_scores' # wallet_scores)
          => \/ restarts' # restarts
             \/ \E c \in Slots :
                  /\ Returns(c)
                  /\ cycle'[c].outcome \in {"nothingNew", "finished", "committed", "rolledBack"}]_vars

\* A chunk call rejected after an earlier chunk of the same cycle had been
\* processed, on a ledger with a qualifying transaction, and nothing is stored.
C5_Witness ==
    \E c \in Slots :
        /\ cycle[c].outcome = "getParsedError"
        /\ cycle[c].i > 0
        /\ \E w \in Wallets : Qualifying(w) # {}
        /\ lastProcessedSignature = NULL
        /\ wallet_scores = << >>

\* C6: the rows change only in the step in which a cycle's storage transaction
\* commits, and then by the whole wallet->increment map of that cycle; a cycle
\* whose transaction failed, after however many upserts, changes no row.
C6_MergeAllOrNothing ==
    /\ [][wallet_scores' # wallet_scores
          => \E c \in Slots :
               /\ Returns(c)
               /\ cycle[c].pc = "commit"
               /\ cycle'[c].outcome = "committed"
               /\ \A w \in Wallets :
                    InteractionCount(wallet_scores', w)
                        = InteractionCount(wallet_scores, w) + cycle[c].map.count[w]]_vars
    /\ [][\A c \in Slots :
             (/\ cycle[c].pc \in {"begin", "upsert", "commit", "rollback"}
              /\ cycle'[c] # cycle[c]
              /\ cycle'[c].pc \in {"rollback", "idle"}
              /\ cycle'[c].outcome # "committed")
             => wallet_scores' = wallet_scores]_vars

\* A storage transaction failed after some but not all of its upserts.
C6_Witness ==
    \E c \in Slots :
        /\ cycle[c].pc = "rollback"
        /\ 0 < Len(cycle[c].writes)
        /\ Len(cycle[c].writes) < Len(cycle[c].map.keys)

\* C7: whenever the checkpoint is set, each wallet's persisted count is the
\* number of qualifying ledger transactions attributed to it that are older
\* than or equal to the checkpoint (each folded in exactly once).
C7_CheckpointInvariant ==
    lastProcessedSignature # NULL
    => \A w \in Wallets :
         InteractionCount(wallet_scores, w)
             = Cardinality({sig \in Qualifying(w) : sig <= lastProcessedSignature})

\* C8: a restart leaves the checkpoint at the value the last cycle wrote.
C8_CheckpointSurvivesRestart ==
    [][restarts' # restarts
       => lastProcessedSignature' = lastProcessedSignature]_vars

\* C9: no qualifying transaction is skipped for good.  Between cycles, with
\* the checkpoint at the newest signature of the ledger, no later cycle
\* fetches anything that is in the ledger now, so every qualifying transaction
\* must already be in its wallet's count.
C9_NothingSkippedForGood ==
    (/\ scheduler = "armed"
     /\ \A c \in Slots : cycle[c].pc = "idle"
     /\ lastProcessedSignature = Len(ledger))
    => \A w \in Wallets :
         InteractionCount(wallet_scores, w) >= Cardinality(Qualifying(w))

\* C10: if the checkpoint occurs in the window at (0-based) index k, the novel
\* set is the window's elements at indices [0, k), in order; if the checkpoint
\* is absent or not in the window, the novel set is the whole window.
C10_NoveltyFilter ==
    cycle[1].pc = "filtered"
    => LET window == cycle[1].signaturesInfo
           novel == cycle[1].newSignaturesToProcess
           Occurs == {p \in 1..Len(window) : window[p] = lastProcessedSignature}
       IN IF lastProcessedSignature # NULL /\ Occurs # {}
          THEN \E p \in Occurs : novel = [j \in 1..(p - 1) |-> window[j]]
          ELSE novel = window

\* Window [s5,s4,s3,s2,s1] with checkpoint s3 filtered to [s5,s4].
C10_Witness ==
    /\ cycle[1].pc = "filtered"
    /\ cycle[1].signaturesInfo = << 5, 4, 3, 2, 1 >>
    /\ lastProcessedSignature = 3
    /\ cycle[1].newSignaturesToProcess = << 5, 4 >>

\* C11: when getSignaturesForAddress resolves with a non-empty window whose
\* novel set is empty, the invocation returns in that step with the checkpoint
\* at the window's newest signature, without a storage transaction and without
\* changing a row; when it resolves with an empty window, the invocation
\* returns leaving the checkpoint and the rows as they are.
C11_FastForward ==
    [][\A c \in Slots :
          (/\ cycle[c].pc = "getSignatures"
           /\ cycle'[c] # cycle[c]
           /\ restarts' = restarts
           /\ cycle'[c].outcome # "getSignaturesError")
          => LET window == GetSignaturesForAddress(ledger, SIGNATURE_FETCH_LIMIT,
                                                   cycle[c].until)
                 Occurs == {p \in 1..Len(window) : window[p] = lastProcessedSignature}
                 novelEmpty == lastProcessedSignature # NULL /\ 1 \in Occurs
             IN /\ (window # << >> /\ novelEmpty)
                   => /\ cycle'[c].pc = "idle"
                      /\ cycle'[c].outcome = "nothingNew"
                      /\ lastProcessedSignature' = window[1]
                      /\ wallet_scores' = wallet_scores
                /\ window = << >>
                   => /\ cycle'[c].pc = "idle"
                      /\ cycle'[c].outcome = "noSignatures"
                      /\ lastProcessedSignature' = lastProcessedSignature
                      /\ wallet_scores' = wallet_scores
                /\ cycle'[c].pc = "idle"
                   => (window = << >> \/ novelEmpty)]_vars

\* An invocation fast-forwarded over a window of SIGNATURE_FETCH_LIMIT
\* signatures, all of them already processed by an overlapping invocation.
C11_Witness ==
    \E c \in Slots :
        /\ cycle[c].outcome = "nothingNew"
        /\ lastProcessedSignature = Len(ledger)
        /\ Len(ledger) > SIGNATURE_FETCH_LIMIT
        /\ wallet_scores # << >>

\* C12: a parsed body adds 1 to the Map (to one wallet, nothing to the others)
\* if and only if its execution error is null, one of its instructions has the
\* target program id and one of its accounts is a signer; otherwise the Map
\* stays empty.  So a body with an execution error adds nothing even when it
\* invokes the program, and a body that does not invoke it adds nothing even
\* when it succeeded and has a signer.
C12_CountingPredicate ==
    cycle[1].pc = "extracted"
    => LET body == ledger[1]
           map == cycle[1].map
           qualifies ==
               /\ body.err = "null"
               /\ \E j \in DOMAIN body.instructions :
                    body.instructions[j] = SOLANA_PROGRAM_ID
               /\ \E j \in DOMAIN body.accountKeys : body.accountKeys[j].signer
       IN IF qualifies
          THEN \E w \in Wallets :
                 /\ map.count[w] = 1
                 /\ \A v \in Wallets \ {w} : map.count[v] = 0
                 /\ map.keys = << w >>
          ELSE map = EmptyMap

\* A body with an execution error, a signer and an invocation of the program
\* was looked at and not counted.
C12_Witness ==
    /\ cycle[1].pc = "extracted"
    /\ ledger[1].err # "null"
    /\ ledger[1].instructions = << "other", SOLANA_PROGRAM_ID >>
    /\ ledger[1].accountKeys = << [pubkey |-> "W1", signer |-> TRUE] >>
    /\ cycle[1].map = EmptyMap

\* C13: a counted body is credited to exactly one wallet, the key of the first
\* account of the list that is marked as a signer; a signer further down the
\* list gets nothing.
C13_FirstSignerCredited ==
    (cycle[1].pc = "extracted" /\ cycle[1].map # EmptyMap)
    => LET keys == ledger[1].accountKeys
           map == cycle[1].map
       IN \E j \in DOMAIN keys :
            /\ keys[j].signer
            /\ \A m \in 1..(j - 1) : ~keys[m].signer
            /\ map.count[keys[j].pubkey] = 1
            /\ \A w \in Wallets \ {keys[j].pubkey} : map.count[w] = 0
            /\ \A m \in (j + 1)..Len(keys) :
                 keys[m].signer => map.count[keys[m].pubkey] = 0

\* A body with two signers was counted for the first of the two.
C13_Witness ==
    /\ cycle[1].pc = "extracted"
    /\ ledger[1].accountKeys = << [pubkey |-> "W2", signer |-> TRUE],
                                  [pubkey |-> "W1", signer |-> TRUE] >>
    /\ cycle[1].map.count = [w \in Wallets |-> IF w = "W2" THEN 1 ELSE 0]

\* The number of signatures among the first n of invocation c's novel set
\* whose transactions satisfy the counting predicate for wallet w.
QualifyingInNovel(c, n, w) ==
    Cardinality({j \in 1..Min(n, Len(cycle[c].newSignaturesToProcess)) :
                    CountedWallet(ledger[cycle[c].newSignaturesToProcess[j]]) = w})

\* C14: the Map of an invocation starts empty and, after the chunks up to
\* index i, holds for every wallet the number of qualifying transactions among
\* the first i of the novel set, so the whole novel set once the loop is over;
\* the open storage transaction holds one upsert per key of the Map, with the
\* Map's value; and rows change only in the single commit step of an
\* invocation, every wallet's count growing by the number of qualifying
\* transactions of the whole novel set attributed to it.
C14_Aggregation ==
    /\ [](\A c \in Slots : \A w \in Wallets :
            LET n == CASE cycle[c].pc = "getSignatures" -> 0
                       [] cycle[c].pc = "getParsed" -> cycle[c].i
                       [] cycle[c].pc = "delay" -> cycle[c].i + BATCH_FETCH_SIZE
                       [] OTHER -> Len(cycle[c].newSignaturesToProcess)
            IN cycle[c].map.count[w] = QualifyingInNovel(c, n, w))
    /\ [](\A c \in Slots :
            /\ Len(cycle[c].writes) <= Len(cycle[c].map.keys)
            /\ \A k \in 1..Len(cycle[c].writes) :
                 cycle[c].writes[k]
                     = << cycle[c].map.keys[k], cycle[c].map.count[cycle[c].map.keys[k]] >>
            /\ \A k, m \in 1..Len(cycle[c].map.keys) :
                 k # m => cycle[c].map.keys[k] # cycle[c].map.keys[m]
            /\ cycle[c].pc = "commit" => Len(cycle[c].writes) = Len(cycle[c].map.keys))
    /\ [][wallet_scores' # wallet_scores
          => \E c \in Slots :
               /\ Returns(c)
               /\ cycle[c].pc = "commit"
               /\ \A w \in Wallets :
                    InteractionCount(wallet_scores', w)
                        = InteractionCount(wallet_scores, w)
                          + QualifyingInNovel(c, Len(cycle[c].newSignaturesToProcess), w)]_vars

\* Two qualifying transactions of one wallet, fetched in two chunks, are one
\* upsert of 2 in the open storage transaction.
C14_Witness ==
    \E c \in Slots :
        /\ cycle[c].pc = "commit"
        /\ Len(cycle[c].newSignaturesToProcess) = 2 * BATCH_FETCH_SIZE
        /\ cycle[c].writes = << << "W1", 2 >> >>

\* C15: in every step (of a successful, an aborted or a rolled-back
\* invocation, or a restart) every existing row stays and its
\* interaction_count does not decrease; a row that appears is created by a
\* committing invocation with that invocation's increment for the wallet,
\* which is at least 1.
C15_Monotonicity ==
    [][/\ \A w \in DOMAIN wallet_scores :
             /\ w \in DOMAIN wallet_scores'
             /\ wallet_scores'[w] >= wallet_scores[w]
       /\ \A w \in DOMAIN wallet_scores' \ DOMAIN wallet_scores :
             /\ wallet_scores'[w] >= 1
             /\ \E c \in Slots :
                  /\ Returns(c)
                  /\ cycle[c].pc = "commit"
                  /\ wallet_scores'[w] = cycle[c].map.count[w]]_vars

\* After a restart and a rolled-back storage transaction a row holds more
\* than one invocation can add, so it was incremented after it was created.
C15_Witness ==
    /\ "W1" \in DOMAIN wallet_scores
    /\ wallet_scores["W1"] > SIGNATURE_FETCH_LIMIT
    /\ restarts > 0
    /\ \E c \in Slots : cycle[c].outcome = "rolledBack"

\* C16: an invocation that fetches with the checkpoint absent takes the whole
\* non-empty window as its novel set; and when it returns, the checkpoint
\* still absent, without a rejected call, and every transaction of that set
\* qualifies for one wallet X, it returns committed, the checkpoint is the
\* newest signature of the set and X's count is its value before plus the
\* size of the set (the other rows unchanged).
C16_EndToEnd ==
    /\ [][\A c \in Slots :
             (/\ cycle[c].pc = "getSignatures"
              /\ cycle[c].until = NULL
              /\ lastProcessedSignature = NULL
              /\ ledger # << >>
              /\ cycle'[c] # cycle[c]
              /\ restarts' = restarts
              /\ cycle'[c].outcome # "getSignaturesError")
             => /\ cycle'[c].pc = "getParsed"
                /\ cycle'[c].newSignaturesToProcess
                       = [j \in 1..Min(SIGNATURE_FETCH_LIMIT, Len(ledger)) |->
                            Len(ledger) - j + 1]]_vars
    /\ [][\A c \in Slots : \A X \in Wallets :
             LET novel == cycle[c].newSignaturesToProcess
             IN (/\ Returns(c)
                 /\ lastProcessedSignature = NULL
                 /\ novel # << >>
                 /\ \A j \in 1..Len(novel) : CountedWallet(ledger[novel[j]]) = X
                 /\ cycle'[c].outcome \notin {"getParsedError", "getClientError",
                                              "rolledBack", "rollbackError"})
                => /\ cycle'[c].outcome = "committed"
                   /\ lastProcessedSignature' = novel[1]
                   /\ \A j \in 1..Len(novel) : novel[j] <= novel[1]
                   /\ InteractionCount(wallet_scores', X)
                          = InteractionCount(wallet_scores, X) + Len(novel)
                   /\ \A w \in Wallets \ {X} :
                        InteractionCount(wallet_scores', w)
                            = InteractionCount(wallet_scores, w)]_vars

\* After a restart, a window of two transactions of W1 was committed on top
\* of the count 2 that W1 had: the checkpoint is the newest signature and
\* the count is 4.
C16_Witness ==
    /\ restarts > 0
    /\ ledger = << "okW1", "okW1", "okW1" >>
    /\ lastProcessedSignature = 3
    /\ wallet_scores = ("W1" :> 4)
    /\ \E c \in Slots : cycle[c].outcome = "committed"

\* C17: no return of an invocation, whichever call rejected, touches the
\* scheduler, which is only ever waiting for the first invocation or armed;
\* once the first invocation is awaited the timer gets armed; and again and
\* again the timer starts an invocation.
C17_ErrorsNeverStopScheduler ==
    /\ [](scheduler \in {"initial", "armed"})
    /\ [][\A c \in Slots : Returns(c) => scheduler' = scheduler]_vars
    /\ (scheduler = "initial") ~> (scheduler = "armed")
    /\ []<><<\E c \in Slots : Tick(c)>>_vars

\* An invocation has returned from a rejected ROLLBACK and the timer is armed.
C17_Witness ==
    /\ scheduler = "armed"
    /\ cycle[1].pc = "idle"
    /\ cycle[1].outcome = "rollbackError"

\* C18: a scoreboard answered with 200 lists, of the rows at the time of the
\* query, at most topN wallets (all rows when there are fewer), each with its
\* interaction_count, no wallet twice, with ranks 1..k in list order, sorted
\* by interaction_count descending and, among equal counts, by updated_at
\* ascending: a wallet updated strictly earlier is never listed after one
\* with the same count.
C18_ScoreboardOrdering ==
    [][(/\ api.pc = "query"
        /\ api.route = "scoreboard"
        /\ api'.pc = "done"
        /\ api'.status = 200)
       => LET scoreboard == api'.body
              updated_at == api'.updated_at
              k == Len(scoreboard)
          IN /\ k = Min(api.topN, Cardinality(DOMAIN wallet_scores))
             /\ k <= api.topN
             /\ \A j \in 1..k :
                  /\ scoreboard[j].rank = j
                  /\ scoreboard[j].walletAddress \in DOMAIN wallet_scores
                  /\ scoreboard[j].score = wallet_scores[scoreboard[j].walletAddress]
             /\ \A j, m \in 1..k :
                  j # m => scoreboard[j].walletAddress # scoreboard[m].walletAddress
             /\ \A j, m \in 1..k :
                  j < m
                  => \/ scoreboard[j].score > scoreboard[m].score
                     \/ /\ scoreboard[j].score = scoreboard[m].score
                        /\ updated_at[scoreboard[j].walletAddress]
                               <= updated_at[scoreboard[m].walletAddress]]_vars

\* Two wallets with the same count, W2 updated before W1: W2 has rank 1.
C18_Witness ==
    /\ api.pc = "done"
    /\ api.route = "scoreboard"
    /\ api.status = 200
    /\ Len(api.body) = 2
    /\ api.body[1].score = api.body[2].score
    /\ api.body[1].walletAddress = "W2"
    /\ api.updated_at["W2"] < api.updated_at["W1"]

\* C19: a score request with an address that is no base58 key is answered
\* 400 in the step in which it arrives, without a storage query; a score
\* request answered 200 carries the interaction_count of the wallet's row at
\* the time of the query, 0 when there is no row; and no step of a score or
\* scoreboard request changes a row or the checkpoint.
C19_ScoreLookup ==
    /\ [][(api.pc = "idle" /\ api'.route = "score"
           /\ api'.walletAddress \notin Base58Keys)
          => (api'.pc = "done" /\ api'.status = 400 /\ ~api'.queried)]_vars
    /\ []((api.route = "score" /\ api.queried) => api.walletAddress \in Base58Keys)
    /\ [][(api.route = "score" /\ api.pc = "query" /\ api'.pc = "done"
           /\ api'.status = 200)
          => (/\ Len(api'.body) = 1
              /\ api'.body[1].walletAddress = api.walletAddress
              /\ api'.body[1].interactionCount
                     = IF api.walletAddress \in DOMAIN wallet_scores
                       THEN wallet_scores[api.walletAddress]
                       ELSE 0)]_vars
    /\ [][api' # api
          => (/\ wallet_scores' = wallet_scores
              /\ lastProcessedSignature' = lastProcessedSignature)]_vars

\* A score request was answered with a count of 2 while a cycle of the
\* indexer is running.
C19_Witness ==
    /\ api.pc = "done"
    /\ api.route = "score"
    /\ api.status = 200
    /\ api.body[1].interactionCount = 2
    /\ cycle[1].pc # "idle"

\* C20: a scoreboard request whose n is present and is not a positive
\* integer (not a non-empty string of digits with a value above 0) is answered
\* 400 in the step in which it arrives, without a storage query; a request
\* without n uses topN = 10.
C20_ScoreboardValidation ==
    (api.route = "scoreboard" /\ api.pc # "idle")
    => LET n == api.query.n
           positiveInteger ==
               /\ Len(n) > 0
               /\ \A j \in 1..Len(n) : n[j] \in {"0", "1"}
               /\ \E j \in 1..Len(n) : n[j] # "0"
       IN /\ (api.query.present /\ ~positiveInteger)
             => (api.pc = "done" /\ api.status = 400 /\ ~api.queried)
          /\ ~api.query.present => api.topN = 10

\* C21: an invocation is in its storage block (client requested, BEGIN, upsert,
\* COMMIT or ROLLBACK sent) only with a non-empty Map, hence only when some
\* transaction of its novel set satisfies the counting predicate; and an
\* invocation that ends its chunk loop with an empty Map returns in that step,
\* with no write pending, no row changed and the checkpoint at the newest
\* signature of its novel set.
C21_EmptyMerge ==
    /\ [](\A c \in Slots :
            cycle[c].pc \in {"getClient", "begin", "upsert", "commit", "rollback"}
            => /\ cycle[c].map.keys # << >>
               /\ \E j \in 1..Len(cycle[c].newSignaturesToProcess) :
                    CountedWallet(ledger[cycle[c].newSignaturesToProcess[j]]) # "none")
    /\ [][\A c \in Slots :
             (/\ cycle[c].pc \in {"getParsed", "delay"}
              /\ cycle'[c].pc \notin {"getParsed", "delay", "getClient"}
              /\ restarts' = restarts
              /\ cycle'[c].outcome # "getParsedError")
             => /\ cycle'[c].pc = "idle"
                /\ cycle'[c].outcome = "finished"
                /\ cycle[c].writes = << >>
                /\ cycle[c].newSignaturesToProcess # << >>
                /\ lastProcessedSignature' = cycle[c].newSignaturesToProcess[1]
                /\ wallet_scores' = wallet_scores]_vars
    /\ [][\A c \in Slots :
             (/\ cycle[c].pc \in {"getParsed", "delay"}
              /\ cycle'[c] # cycle[c]
              /\ restarts' = restarts
              /\ \A j \in 1..Len(cycle[c].newSignaturesToProcess) :
                   CountedWallet(ledger[cycle[c].newSignaturesToProcess[j]]) = "none")
             => cycle'[c].pc \in {"getParsed", "delay", "idle"}]_vars

\* A novel set of two failed transactions was processed: nothing is stored
\* and the checkpoint is the newer of the two.
C21_Witness ==
    /\ ledger = << "failed", "failed" >>
    /\ lastProcessedSignature = 2
    /\ wallet_scores = << >>
    /\ \E c \in Slots : cycle[c].outcome = "finished"

\* Invocation c has a chunk request pending that asks for signature sig.
Requested(c, sig) ==
    /\ cycle[c].pc = "getParsed"
    /\ \E j \in (cycle[c].i + 1)..Min(cycle[c].i + BATCH_FETCH_SIZE,
                                      Len(cycle[c].newSignaturesToProcess)) :
         cycle[c].newSignaturesToProcess[j] = sig

\* C22: a chunk response whose entries are not counted (missing body,
\* execution error, no signer) does not end the invocation before the last
\* chunk, and after the last chunk the invocation goes on to the storage
\* block or advances the checkpoint to the newest signature of the novel set;
\* and once an invocation has returned with the checkpoint advanced to an
\* uncounted transaction, no invocation ever requests that transaction again.
C22_ExcludedNotRetried ==
    /\ [][\A c \in Slots :
             (/\ cycle[c].pc = "getParsed"
              /\ cycle'[c].pc = "idle"
              /\ restarts' = restarts
              /\ cycle'[c].outcome # "getParsedError")
             => /\ cycle[c].i + BATCH_FETCH_SIZE >= Len(cycle[c].newSignaturesToProcess)
                /\ lastProcessedSignature' = cycle[c].newSignaturesToProcess[1]]_vars
    /\ \A sig \in 1..MaxLedger :
         []((/\ \A c \in Slots : cycle[c].pc = "idle"
             /\ \E c \in Slots : cycle[c].outcome \in {"finished", "committed"}
             /\ lastProcessedSignature = sig
             /\ CountedWallet(ledger[sig]) = "none")
            => [](\A c \in Slots : ~Requested(c, sig)))

C24_BoundaryConvention ==
    \A c \in Slots \ {1} :
        (/\ cycle[1].pc = "filtered"
         /\ cycle[c].pc = "filtered"
         /\ cycle[1].until # NULL
         /\ lastProcessedSignature > Len(ledger) - SIGNATURE_FETCH_LIMIT)
        => /\ cycle[1].newSignaturesToProcess = cycle[c].newSignaturesToProcess
           /\ cycle[c].newSignaturesToProcess
                  = [j \in 1..(Len(ledger) - lastProcessedSignature) |-> Len(ledger) - j + 1]

\* The checkpoint is the second newest signature: the one upstream returns
\* the newest signature only, the other the newest and the checkpoint, and
\* both novel sets are the newest signature.
C24_Witness ==
    /\ Len(ledger) = 4
    /\ lastProcessedSignature = 3
    /\ cycle[1].pc = "filtered"
    /\ cycle[1].signaturesInfo = << 4 >>
    /\ cycle[2].pc = "filtered"
    /\ cycle[2].signaturesInfo = << 4, 3 >>
    /\ cycle[2].newSignaturesToProcess = << 4 >>

\* C25: with the API server process and the standalone indexer process both
\* running against the same database, no counter exceeds the number of
\* qualifying transactions of its wallet (each is added at most once).
C25_SingleWriter ==
    server.scheduler # "off"
    => \A w \in Wallets :
           InteractionCount(wallet_scores, w) <= Cardinality(Qualifying(w))

\* The invocation is inside the storage block.
InStorage(c) == cycle[c].pc \in {"getClient", "begin", "upsert", "commit", "rollback"}

\* C26: a step taken while the checkpoint is the newest signature of the
\* ledger, and that emits nothing, leaves the checkpoint and the counters
\* unchanged; and once the ledger has emitted its last transaction and an
\* invocation has returned successfully with the checkpoint on it, no later
\* invocation enters the storage block and the counters stay as they are.
C26_Quiescence ==
    /\ [][(/\ lastProcessedSignature = Len(ledger)
            /\ ledger' = ledger
            /\ restarts' = restarts)
           => (/\ lastProcessedSignature' = lastProcessedSignature
               /\ wallet_scores' = wallet_scores)]_vars
    /\ \A w \in Wallets : \A count \in 0..MaxLedger :
         []((/\ Len(ledger) = MaxLedger
             /\ lastProcessedSignature = MaxLedger
             /\ \A c \in Slots : cycle[c].pc = "idle"
             /\ \E c \in Slots :
                  cycle[c].outcome \in {"noSignatures", "nothingNew", "finished", "committed"}
             /\ InteractionCount(wallet_scores, w) = count)
            => [](/\ \A c \in Slots : ~InStorage(c)
                  /\ InteractionCount(wallet_scores, w) = count))

\* C27: whenever the checkpoint changes from one signature to another, the new
\* one is newer in ledger order, in every interleaving of the invocations.
C27_CheckpointMonotone ==
    [][(/\ lastProcessedSignature # NULL
        /\ lastProcessedSignature' # NULL
        /\ lastProcessedSignature' # lastProcessedSignature)
       => lastProcessedSignature' > lastProcessedSignature]_vars

\* C28: an invocation holds a client exactly while it is between BEGIN and
\* the end of its storage block; it gives the client up only by returning, with
\* the client released once, after COMMIT resolved or after a ROLLBACK attempt
\* (resolved or rejected); a failed db.getClient() leaves nothing to release;
\* after BEGIN was sent the invocation leaves the block only through COMMIT or
\* ROLLBACK, ROLLBACK is attempted once, and after a COMMIT attempt comes
\* nothing but one ROLLBACK attempt if it rejected.
C28_ClientLifecycle ==
    /\ [](\A c \in Slots :
            /\ (cycle[c].client = "acquired")
                   <=> (cycle[c].pc \in {"begin", "upsert", "commit", "rollback"})
            /\ cycle[c].client \in {"none", "acquired", "released"})
    /\ [][restarts' = restarts
          => \A c \in Slots :
               /\ (cycle[c].client = "acquired" /\ cycle'[c].client # "acquired")
                      => /\ cycle[c].pc \in {"commit", "rollback"}
                         /\ cycle'[c].pc = "idle"
                         /\ cycle'[c].client = "released"
               /\ (cycle[c].pc = "getClient" /\ cycle'[c].pc = "idle")
                      => cycle'[c].client = "none"
               /\ (cycle[c].pc \in {"begin", "upsert"})
                      => cycle'[c].pc \in {"begin", "upsert", "commit", "rollback"}
               /\ (cycle[c].pc = "commit")
                      => cycle'[c].pc \in {"commit", "rollback", "idle"}
               /\ (cycle[c].pc = "rollback")
                      => cycle'[c].pc \in {"rollback", "idle"}]_vars

\* ROLLBACK itself was rejected, the invocation has returned through the
\* outer catch, and its client is released.
C28_Witness ==
    \E c \in Slots :
        /\ cycle[c].pc = "idle"
        /\ cycle[c].outcome = "rollbackError"
        /\ cycle[c].client = "released"

\* C29: an invocation that returns after a storage failure, whichever it was
\* (db.getClient() rejected; BEGIN, an upsert or COMMIT rejected and ROLLBACK
\* resolved; ROLLBACK rejected), leaves the checkpoint where it was and
\* changes no counter.
C29_StorageFailureOutcome ==
    [][\A c \in Slots :
          (/\ Returns(c)
           /\ cycle'[c].outcome \in {"getClientError", "rolledBack", "rollbackError"})
          => (/\ lastProcessedSignature' = lastProcessedSignature
              /\ wallet_scores' = wallet_scores)]_vars

====
